---- MODULE Spec2Model ----
(***************************************************************************)
(* A model of phisch/phrame: three Wayland client programs that bind an    *)
(* EGL context to a surface and draw into it with skia.                    *)
(*                                                                         *)
(*   "egl"     src/src/main.rs                  one decorated xdg window   *)
(*   "layer"   src/crates/poc/src/bin/layer_shell.rs   one layer surface   *)
(*   "phrame"  src/crates/phrame/src/main.rs over the interphace crate     *)
(*             (application.rs, backend.rs, window.rs, graphics_context.rs)*)
(*                                                                         *)
(* A behaviour is one run of one of the programs (the variable program).   *)
(* The compositor and the GPU driver are the environment: the driver's     *)
(* answers and the events of a dispatch batch are chosen with \E.          *)
(***************************************************************************)
EXTENDS Integers, Sequences, FiniteSets, TLC

VARIABLES
    program,        \* which binary runs
    pc,             \* position of main: "start", "setup", "dispatch", "exited", "aborted"
    batch,          \* the running blocking_dispatch call has handled an event
    pending,        \* events the running blocking_dispatch call has yet to deliver
    nevents,        \* events handled in the whole run
    event,          \* the event the last handler handled
    ops,            \* the library calls made by the last step, in order
    draws,          \* draw sequences performed in the whole run
    current,        \* the EGL contexts current on the thread
    bind,           \* the steps of the last context bind
    example,        \* struct EglExample     (src/src/main.rs)
    simple_layer,   \* struct SimpleLayer    (layer_shell.rs)
    windows,        \* Backend.windows       (backend.rs)
    created,        \* Windows returned by Window::new and not yet given to add_window
    esc_handled,    \* history: a press_key with the Escape keysym has been handled
    close_requested \* history: a close request of the compositor has been handled

vars == <<program, pc, batch, pending, nevents, event, ops, draws, current,
          bind, example, simple_layer, windows, created, esc_handled,
          close_requested>>

---------------------------------------------------------------------------
(* Bounds of the model *)

MaxEvents == 3      \* events delivered in one run
MaxWindows == 3     \* Window::new calls in one run of the interphace program

(* Widths and heights a configure event may report *)
Dims == {0, 600, 800}

(* WindowConfigure.new_size: Option<(u32, u32)> *)
WindowSizes == {<<>>} \cup (Dims \X Dims)

(* The sizes the configure events of the multi-window program report (its  *)
(* handler only prints them)                                               *)
BackendSizes == {<<>>, <<800, 600>>}

(* LayerSurfaceConfigure.new_size: (u32, u32) *)
LayerSizes == Dims \X Dims

Programs == {"egl", "layer", "phrame"}

(* Option<T>: None, and Some(x) as x itself when x is a tuple *)
None == <<>>

(* Some(x) of an object or a number *)
Some(x) == <<x>>

unwrap_or(opt, default) == IF opt = None THEN default ELSE opt

---------------------------------------------------------------------------
(* The GPU driver and display server as seen by one context bind: which of *)
(* the fallible library calls succeed.                                     *)

Drivers ==
    [conn_live : BOOLEAN, display_ok : BOOLEAN, has_config : BOOLEAN,
     gl_ok : BOOLEAN, gles_ok : BOOLEAN, surface_ok : BOOLEAN,
     current_ok : BOOLEAN, gr_ok : BOOLEAN, skia_ok : BOOLEAN]

(* The display server as seen at startup: whether it can be reached, which *)
(* globals it advertises (wl_compositor, xdg_wm_base, zwlr_layer_shell_v1, *)
(* wl_seat, wl_output), and whether it grants the surface its role (the    *)
(* mapped window of src/src/main.rs, the input region of layer_shell.rs).  *)
Servers ==
    [reachable : BOOLEAN, registry_ok : BOOLEAN, compositor : BOOLEAN,
     xdg_shell : BOOLEAN, layer_shell : BOOLEAN, seat : BOOLEAN,
     output : BOOLEAN, role_ok : BOOLEAN]

(* One library call of a bind whose result is unwrapped or expected: it    *)
(* panics when the call failed.                                            *)
Step(name, failed) == [op |-> name, failed |-> failed, panics |-> failed]

(* One library call whose error the caller handles *)
Try(name, failed) == [op |-> name, failed |-> failed, panics |-> FALSE]

(* One constructor that returns a state object and no Result: it succeeds  *)
(* whether or not the server advertises the global (absent).               *)
New(name, absent) ==
    [op |-> name, failed |-> FALSE, panics |-> FALSE, absent |-> absent]

(* The calls actually made: the sequence up to and including the first     *)
(* one that panics.                                                        *)
RECURSIVE UntilPanic(_)
UntilPanic(s) ==
    IF s = <<>> THEN <<>>
    ELSE IF Head(s).panics THEN <<Head(s)>>
    ELSE <<Head(s)>> \o UntilPanic(Tail(s))

Panicked(log) == log # <<>> /\ log[Len(log)].panics

(* One call recorded in ops: the window it is made for (0: the program's   *)
(* only one), and the contexts current, the canvas and the presentation    *)
(* target as they are when the call is made.                               *)
Op(name, win, cur, canvas, target) ==
    [op |-> name, win |-> win, cur |-> cur, canvas |-> canvas, target |-> target]

(* A glutin window surface (the presentation target) and a skia surface    *)
(* (the canvas); id tells one canvas object from the next, frames is what  *)
(* has been drawn into it.                                                 *)
Target(w, h) == [width |-> w, height |-> h]
Canvas(w, h, id) == [width |-> w, height |-> h, id |-> id, frames |-> 0]

NoEvent == [kind |-> "none"]

(* The result of a method that may panic: the struct afterwards, the calls *)
(* it made, and whether it panicked.                                       *)
Ret(self, calls, panic) == [self |-> self, ops |-> calls, panic |-> panic]

---------------------------------------------------------------------------
(* src/src/main.rs: the decorated-window example                           *)

(* Mutant of Egl_create_context: Result::or in place of or_else, the Gles  *)
(* request is made before the OpenGL result is examined.                   *)
Egl_create_context_eager(d) ==
    <<Try("create_context(OpenGl)", ~d.gl_ok),
      Step("create_context(Gles)", ~d.gl_ok /\ ~d.gles_ok)>>

(* Create a context, trying OpenGL and then Gles (Result::or_else: the     *)
(* second request is made only when the first one failed).                 *)
Egl_create_context(d) ==
    IF d.gl_ok
    THEN <<Try("create_context(OpenGl)", FALSE)>>
    ELSE <<Try("create_context(OpenGl)", TRUE),
           Step("create_context(Gles)", ~d.gles_ok)>>

Egl_init_egl(d, width, height) ==
    <<Step("upgrade", ~d.conn_live),
      Step("display_handle", FALSE),
      Step("window_handle", FALSE),
      Step("Display::new", ~d.display_ok),
      Step("find_configs", ~d.has_config)>>
    \o Egl_create_context(d)
    \o <<Step("NonZeroU32::new", width = 0 \/ height = 0),
          Step("create_window_surface", ~d.surface_ok)>>

(* create_surface: the canvas takes the presentation target's dimensions   *)
(* as they are when it is created.                                         *)
Egl_create_surface(surface, id) == Canvas(surface.width, surface.height, id)

(* main up to the dispatch loop: the calls it makes *)
Egl_main_steps(s, d) ==
    <<Step("connect_to_env", ~s.reachable),
      Step("registry_queue_init", ~s.registry_ok),
      Step("CompositorState::bind", ~s.compositor),
      Step("XdgShellState::bind", ~s.xdg_shell),
      Step("XdgWindowState::bind", FALSE),
      Step("create_surface", FALSE),
      Step("Window::builder", ~s.role_ok)>>
    \o Egl_init_egl(d, 1280, 720)
    \o <<Step("make_current", ~d.current_ok),
          Step("DirectContext::new_gl", ~d.gr_ok),
          Step("width", FALSE),
          Step("height", FALSE),
          Step("from_backend_render_target", ~d.skia_ok)>>

Egl_new ==
    [exit |-> FALSE, width |-> 300, height |-> 200, context |-> 1,
     surface |-> Target(1280, 720),
     skia_surface |-> Egl_create_surface(Target(1280, 720), 1)]

Egl_main ==
    /\ program = "egl" /\ pc = "start"
    /\ \E s \in Servers, d \in Drivers :
         LET log == UntilPanic(Egl_main_steps(s, d)) IN
         /\ bind' = log
         /\ IF Panicked(log)
            THEN /\ pc' = "aborted"
                 /\ UNCHANGED <<example, current>>
            ELSE /\ pc' = "dispatch"
                 /\ example' = Egl_new
                 /\ current' = {1}
    /\ ops' = <<>>
    /\ event' = NoEvent
    /\ UNCHANGED <<program, batch, pending, nevents, draws, simple_layer, windows,
                   created, esc_handled, close_requested>>

(* Mutant of Egl_resize: the canvas is created anew on every resize *)
Egl_resize_recreating(self, cur) ==
    IF self.width = 0 \/ self.height = 0
    THEN Ret(self, <<Op("panic", 0, cur, self.skia_surface, self.surface)>>, TRUE)
    ELSE Ret([self EXCEPT !.surface = Target(self.width, self.height),
                          !.skia_surface =
                              [Canvas(self.width, self.height, @.id + 1)
                                   EXCEPT !.frames = self.skia_surface.frames]],
             <<Op("resize", 0, cur, self.skia_surface, self.surface)>>, FALSE)

(* EglExample::resize: NonZeroU32::new(0).unwrap() panics *)
Egl_resize(self, cur) ==
    IF self.width = 0 \/ self.height = 0
    THEN Ret(self, <<Op("panic", 0, cur, self.skia_surface, self.surface)>>, TRUE)
    ELSE Ret([self EXCEPT !.surface = Target(self.width, self.height)],
             <<Op("resize", 0, cur, self.skia_surface, self.surface)>>, FALSE)

(* Mutant of Egl_draw: the buffers are swapped before the canvas is        *)
(* flushed                                                                 *)
Egl_draw_swap_first(self, cur) ==
    Ret([self EXCEPT !.skia_surface.frames = @ + 1],
        <<Op("clear", 0, cur, self.skia_surface, self.surface),
          Op("render_frame", 0, cur, self.skia_surface, self.surface),
          Op("swap_buffers", 0, cur, self.skia_surface, self.surface),
          Op("flush_and_submit", 0, cur, self.skia_surface, self.surface)>>,
        FALSE)

(* EglExample::draw *)
Egl_draw(self, cur) ==
    Ret([self EXCEPT !.skia_surface.frames = @ + 1],
        <<Op("clear", 0, cur, self.skia_surface, self.surface),
          Op("render_frame", 0, cur, self.skia_surface, self.surface),
          Op("flush_and_submit", 0, cur, self.skia_surface, self.surface),
          Op("swap_buffers", 0, cur, self.skia_surface, self.surface)>>,
        FALSE)

(* The loop calls blocking_dispatch, which blocks until the compositor has  *)
(* sent events: a batch of n events, which it then delivers to the         *)
(* handlers one after the other before it returns.                         *)
blocking_dispatch(n) ==
    /\ pc = "dispatch"
    /\ ~batch /\ pending = 0
    /\ nevents + n <= MaxEvents
    /\ pending' = n
    /\ ops' = <<>>
    /\ UNCHANGED <<program, pc, batch, nevents, event, draws, current, bind,
                   example, simple_layer, windows, created, esc_handled,
                   close_requested>>

(* The guard of every handler: blocking_dispatch is delivering an event *)
Dispatching(p) ==
    /\ program = p /\ pc = "dispatch"
    /\ pending > 0

Handled(e) ==
    /\ event' = e
    /\ nevents' = nevents + 1
    /\ pending' = pending - 1
    /\ batch' = TRUE

(* WindowHandler::configure *)
Egl_configure(new_size) ==
    /\ Dispatching("egl")
    /\ Handled([kind |-> "configure", new_size |-> new_size])
    /\ LET size == unwrap_or(new_size, <<1280, 800>>)
           s1 == [example EXCEPT !.width = size[1], !.height = size[2]]
           r == Egl_resize(s1, current)
           d == Egl_draw(r.self, current)
       IN IF r.panic
          THEN /\ pc' = "aborted"
               /\ example' = r.self
               /\ ops' = r.ops
               /\ draws' = draws
          ELSE /\ pc' = pc
               /\ example' = d.self
               /\ ops' = r.ops \o d.ops
               /\ draws' = draws + 1
    /\ UNCHANGED <<program, current, bind, simple_layer, windows, created,
                   esc_handled, close_requested>>

(* WindowHandler::request_close *)
Egl_request_close ==
    /\ Dispatching("egl")
    /\ Handled([kind |-> "request_close"])
    /\ example' = [example EXCEPT !.exit = TRUE]
    /\ close_requested' = TRUE
    /\ ops' = <<>>
    /\ UNCHANGED <<program, pc, draws, current, bind, simple_layer, windows,
                   created, esc_handled>>

(* The handlers with an empty body: CompositorHandler::frame and           *)
(* scale_factor_changed, OutputHandler, SeatHandler.                       *)
Egl_NoopKinds ==
    {"frame", "scale_factor_changed", "new_output", "update_output",
     "output_destroyed", "new_seat", "new_capability", "remove_capability",
     "remove_seat"}

Egl_noop(kind) ==
    /\ Dispatching("egl")
    /\ Handled([kind |-> kind])
    /\ ops' = <<>>
    /\ UNCHANGED <<program, pc, draws, current, bind, example, simple_layer,
                   windows, created, esc_handled, close_requested>>

(* Mutant of Egl_loop: the exit flag is examined between two events of a   *)
(* batch                                                                   *)
Egl_loop_early ==
    /\ program = "egl" /\ pc = "dispatch"
    /\ batch
    /\ pc' = IF example.exit THEN "exited" ELSE "dispatch"
    /\ batch' = (pending > 0 /\ ~example.exit)
    /\ ops' = <<>>
    /\ event' = NoEvent
    /\ UNCHANGED <<program, pending, nevents, draws, current, bind, example,
                   simple_layer, windows, created, esc_handled, close_requested>>

(* main's loop: blocking_dispatch has returned (it has delivered every     *)
(* event of the batch), then the exit flag is examined.                    *)
Egl_loop ==
    /\ program = "egl" /\ pc = "dispatch"
    /\ batch /\ pending = 0
    /\ pc' = IF example.exit THEN "exited" ELSE "dispatch"
    /\ batch' = FALSE
    /\ ops' = <<>>
    /\ event' = NoEvent
    /\ UNCHANGED <<program, pending, nevents, draws, current, bind, example,
                   simple_layer, windows, created, esc_handled, close_requested>>

---------------------------------------------------------------------------
(* src/crates/poc/src/bin/layer_shell.rs: the layer-surface example        *)

KEY_Escape == 65307
Keysyms == {KEY_Escape, 97}

(* linux/input-event-codes.h: the buttons pointer_frame tells apart, and   *)
(* one more                                                                *)
BTN_LEFT == 272
BTN_RIGHT == 273
BTN_MIDDLE == 274
Buttons == {BTN_LEFT, BTN_RIGHT, BTN_MIDDLE}

(* Capability of a seat *)
Capabilities == {"Keyboard", "Pointer", "Touch"}

(* The wl_surface an input event is addressed to: the layer's own or one   *)
(* of another client object                                                *)
Surfaces == {"layer", "other"}

(* PointerEvent: surface and kind (Enter and Leave are printed like Axis)  *)
PointerEvents ==
    [surface : Surfaces, kind : {"Motion", "Axis"}]
    \cup [surface : Surfaces, kind : {"Press", "Release"}, button : Buttons]

(* The event slices a pointer_frame call is given: one event, or a press   *)
(* on either surface followed by a press on the layer's                    *)
PointerFrames ==
    {<<e>> : e \in PointerEvents}
    \cup {<<a, b>> : a \in {e \in PointerEvents : e.kind = "Press"},
                     b \in {e \in PointerEvents :
                              e.kind = "Press" /\ e.surface = "layer"}}

(* Mutant of Layer_create_context: the result of the Gles request is not   *)
(* unwrapped                                                               *)
Layer_create_context_unchecked(d) ==
    IF d.gl_ok
    THEN <<Try("create_context(OpenGl)", FALSE)>>
    ELSE <<Try("create_context(OpenGl)", TRUE),
           Try("create_context(Gles)", ~d.gles_ok)>>

Layer_create_context(d) ==
    IF d.gl_ok
    THEN <<Try("create_context(OpenGl)", FALSE)>>
    ELSE <<Try("create_context(OpenGl)", TRUE),
           Step("create_context(Gles)", ~d.gles_ok)>>

(* Mutant of Layer_init_egl: the display pointer is taken from the backend *)
(* without the upgrade being expected                                      *)
Layer_init_egl_unguarded(d, width, height) ==
    <<Try("upgrade", ~d.conn_live),
      Step("display_handle", FALSE),
      Step("window_handle", FALSE),
      Step("Display::new", ~d.display_ok),
      Step("find_configs", ~d.has_config)>>
    \o Layer_create_context(d)
    \o <<Step("NonZeroU32::new", width = 0 \/ height = 0),
          Step("create_window_surface", ~d.surface_ok)>>

Layer_init_egl(d, width, height) ==
    <<Step("upgrade", ~d.conn_live),
      Step("display_handle", FALSE),
      Step("window_handle", FALSE),
      Step("Display::new", ~d.display_ok),
      Step("find_configs", ~d.has_config)>>
    \o Layer_create_context(d)
    \o <<Step("NonZeroU32::new", width = 0 \/ height = 0),
          Step("create_window_surface", ~d.surface_ok)>>

Layer_create_surface(surface, id) == Canvas(surface.width, surface.height, id)

(* main up to the dispatch loop: the calls it makes *)
Layer_main_steps(s, d) ==
    <<Step("connect_to_env", ~s.reachable),
      Step("registry_queue_init", ~s.registry_ok),
      Step("CompositorState::bind", ~s.compositor),
      Step("LayerShell::bind", ~s.layer_shell),
      Step("create_surface", FALSE),
      Step("create_layer_surface", FALSE),
      Step("Region::new", ~s.role_ok),
      Step("commit", FALSE)>>
    \o Layer_init_egl(d, 1000, 1000)
    \o <<Step("make_current", ~d.current_ok),
          Step("DirectContext::new_gl", ~d.gr_ok),
          Step("width", FALSE),
          Step("height", FALSE),
          Step("from_backend_render_target", ~d.skia_ok)>>

(* The layer surface as main requests it before the first commit *)
Layer_layer ==
    [wl_surface |-> "layer", keyboard_interactivity |-> "None",
     size |-> <<1000, 100>>, anchor |-> "BOTTOM", exclusive_zone |-> 50]

Layer_new ==
    [exit |-> FALSE, first_configure |-> TRUE, width |-> 256, height |-> 256,
     shift |-> None, layer |-> Layer_layer, keyboard |-> None,
     keyboard_focus |-> FALSE, pointer |-> None, context |-> 1,
     surface |-> Target(1000, 1000),
     skia_surface |-> Layer_create_surface(Target(1000, 1000), 1)]

Layer_main ==
    /\ program = "layer" /\ pc = "start"
    /\ \E s \in Servers, d \in Drivers :
         LET log == UntilPanic(Layer_main_steps(s, d)) IN
         /\ bind' = log
         /\ IF Panicked(log)
            THEN /\ pc' = "aborted"
                 /\ UNCHANGED <<simple_layer, current>>
            ELSE /\ pc' = "dispatch"
                 /\ simple_layer' = Layer_new
                 /\ current' = {1}
    /\ ops' = <<>>
    /\ event' = NoEvent
    /\ UNCHANGED <<program, batch, pending, nevents, draws, example, windows,
                   created, esc_handled, close_requested>>

(* SimpleLayer::draw *)
Layer_draw(self, cur) ==
    Ret([self EXCEPT !.skia_surface.frames = @ + 1],
        <<Op("clear", 0, cur, self.skia_surface, self.surface),
          Op("render_frame", 0, cur, self.skia_surface, self.surface),
          Op("flush_and_submit", 0, cur, self.skia_surface, self.surface),
          Op("swap_buffers", 0, cur, self.skia_surface, self.surface)>>,
        FALSE)

(* Mutant of Layer_working_size: the fallback only when both are zero *)
Layer_working_size_both(new_size) ==
    IF new_size[1] = 0 /\ new_size[2] = 0
    THEN <<256, 256>>
    ELSE <<new_size[1], new_size[2]>>

(* The working size LayerShellHandler::configure stores for new_size *)
Layer_working_size(new_size) ==
    IF new_size[1] = 0 \/ new_size[2] = 0
    THEN <<256, 256>>
    ELSE <<new_size[1], new_size[2]>>

(* Mutant of Layer_store_size: the handler also asks for an exclusive zone *)
(* of the new height                                                       *)
Layer_store_size_zone(self, new_size) ==
    LET size == Layer_working_size(new_size) IN
    [self EXCEPT !.width = size[1], !.height = size[2],
                 !.layer.exclusive_zone = size[2]]

(* What LayerShellHandler::configure stores: the working width and height  *)
Layer_store_size(self, new_size) ==
    LET size == Layer_working_size(new_size) IN
    [self EXCEPT !.width = size[1], !.height = size[2]]

(* Mutant of Layer_configure: every configure draws *)
Layer_configure_redrawing(new_size) ==
    /\ Dispatching("layer")
    /\ Handled([kind |-> "configure", new_size |-> new_size])
    /\ LET s1 == Layer_store_size(simple_layer, new_size)
           s2 == [s1 EXCEPT !.first_configure = FALSE]
           d == Layer_draw(s2, current)
       IN /\ simple_layer' = d.self
          /\ ops' = d.ops
          /\ draws' = draws + 1
    /\ UNCHANGED <<program, pc, current, bind, example, windows, created,
                   esc_handled, close_requested>>

(* LayerShellHandler::configure *)
Layer_configure(new_size) ==
    /\ Dispatching("layer")
    /\ Handled([kind |-> "configure", new_size |-> new_size])
    /\ LET s1 == Layer_store_size(simple_layer, new_size)
           s2 == [s1 EXCEPT !.first_configure = FALSE]
           d == Layer_draw(s2, current)
       IN IF s1.first_configure
          THEN /\ simple_layer' = d.self
               /\ ops' = d.ops
               /\ draws' = draws + 1
          ELSE /\ simple_layer' = s1
               /\ ops' = <<>>
               /\ draws' = draws
    /\ UNCHANGED <<program, pc, current, bind, example, windows, created,
                   esc_handled, close_requested>>

(* LayerShellHandler::closed *)
Layer_closed ==
    /\ Dispatching("layer")
    /\ Handled([kind |-> "closed"])
    /\ simple_layer' = [simple_layer EXCEPT !.exit = TRUE]
    /\ close_requested' = TRUE
    /\ ops' = <<>>
    /\ UNCHANGED <<program, pc, draws, current, bind, example, windows,
                   created, esc_handled>>

(* CompositorHandler::frame. A frame callback answers a frame the client   *)
(* has presented: none arrives before the first draw.                      *)
Layer_frame ==
    /\ Dispatching("layer")
    /\ ~simple_layer.first_configure
    /\ Handled([kind |-> "frame"])
    /\ LET d == Layer_draw(simple_layer, current) IN
         /\ simple_layer' = d.self
         /\ ops' = d.ops
         /\ draws' = draws + 1
    /\ UNCHANGED <<program, pc, current, bind, example, windows, created,
                   esc_handled, close_requested>>

(* Keyboard events arrive on the wl_keyboard the program holds, pointer    *)
(* events on its wl_pointer                                                *)
HasKeyboard == simple_layer.keyboard # None
HasPointer == simple_layer.pointer # None

(* Mutant of Layer_press_key: every key press sets the exit flag *)
Layer_press_key_any(keysym) ==
    /\ Dispatching("layer") /\ HasKeyboard
    /\ Handled([kind |-> "press_key", keysym |-> keysym])
    /\ simple_layer' = [simple_layer EXCEPT !.exit = TRUE]
    /\ esc_handled' = (esc_handled \/ keysym = KEY_Escape)
    /\ ops' = <<>>
    /\ UNCHANGED <<program, pc, draws, current, bind, example, windows,
                   created, close_requested>>

(* KeyboardHandler::press_key *)
Layer_press_key(keysym) ==
    /\ Dispatching("layer") /\ HasKeyboard
    /\ Handled([kind |-> "press_key", keysym |-> keysym])
    /\ simple_layer' =
         IF keysym = KEY_Escape
         THEN [simple_layer EXCEPT !.exit = TRUE]
         ELSE simple_layer
    /\ esc_handled' = (esc_handled \/ keysym = KEY_Escape)
    /\ ops' = <<>>
    /\ UNCHANGED <<program, pc, draws, current, bind, example, windows,
                   created, close_requested>>

(* KeyboardHandler::release_key *)
Layer_release_key(keysym) ==
    /\ Dispatching("layer") /\ HasKeyboard
    /\ Handled([kind |-> "release_key", keysym |-> keysym])
    /\ ops' = <<>>
    /\ UNCHANGED <<program, pc, draws, current, bind, example, simple_layer,
                   windows, created, esc_handled, close_requested>>

(* A call made on the seat or the layer surface, as recorded in ops *)
LayerOp(name, self, cur) == Op(name, 0, cur, self.skia_surface, self.surface)

(* Mutant of new_capability: no test that the field is empty *)
new_capability_unchecked(self, capability, cur) ==
    LET k == capability = "Keyboard"
        p == capability = "Pointer"
    IN Ret([self EXCEPT !.keyboard = IF k THEN Some("wl_keyboard") ELSE @,
                        !.pointer = IF p THEN Some("wl_pointer") ELSE @],
           (IF k THEN <<LayerOp("get_keyboard", self, cur)>> ELSE <<>>)
             \o (IF p THEN <<LayerOp("get_pointer", self, cur)>> ELSE <<>>),
           FALSE)

(* SeatHandler::new_capability: the struct afterwards and the calls made *)
new_capability(self, capability, cur) ==
    LET k == capability = "Keyboard" /\ self.keyboard = None
        p == capability = "Pointer" /\ self.pointer = None
    IN Ret([self EXCEPT !.keyboard = IF k THEN Some("wl_keyboard") ELSE @,
                        !.pointer = IF p THEN Some("wl_pointer") ELSE @],
           (IF k THEN <<LayerOp("get_keyboard", self, cur)>> ELSE <<>>)
             \o (IF p THEN <<LayerOp("get_pointer", self, cur)>> ELSE <<>>),
           FALSE)

Layer_new_capability(capability) ==
    /\ Dispatching("layer")
    /\ Handled([kind |-> "new_capability", capability |-> capability])
    /\ LET r == new_capability(simple_layer, capability, current) IN
         /\ simple_layer' = r.self
         /\ ops' = r.ops
    /\ UNCHANGED <<program, pc, draws, current, bind, example, windows,
                   created, esc_handled, close_requested>>

(* SeatHandler::remove_capability *)
remove_capability(self, capability, cur) ==
    LET k == capability = "Keyboard" /\ self.keyboard # None
        p == capability = "Pointer" /\ self.pointer # None
    IN Ret([self EXCEPT !.keyboard = IF k THEN None ELSE @,
                        !.pointer = IF p THEN None ELSE @],
           (IF k THEN <<LayerOp("keyboard.release", self, cur)>> ELSE <<>>)
             \o (IF p THEN <<LayerOp("pointer.release", self, cur)>> ELSE <<>>),
           FALSE)

Layer_remove_capability(capability) ==
    /\ Dispatching("layer")
    /\ Handled([kind |-> "remove_capability", capability |-> capability])
    /\ LET r == remove_capability(simple_layer, capability, current) IN
         /\ simple_layer' = r.self
         /\ ops' = r.ops
    /\ UNCHANGED <<program, pc, draws, current, bind, example, windows,
                   created, esc_handled, close_requested>>

(* KeyboardHandler::enter *)
Layer_enter(surface) ==
    /\ Dispatching("layer") /\ HasKeyboard
    /\ Handled([kind |-> "enter", surface |-> surface])
    /\ simple_layer' =
         IF simple_layer.layer.wl_surface = surface
         THEN [simple_layer EXCEPT !.keyboard_focus = TRUE]
         ELSE simple_layer
    /\ ops' = <<>>
    /\ UNCHANGED <<program, pc, draws, current, bind, example, windows,
                   created, esc_handled, close_requested>>

(* KeyboardHandler::leave *)
Layer_leave(surface) ==
    /\ Dispatching("layer") /\ HasKeyboard
    /\ Handled([kind |-> "leave", surface |-> surface])
    /\ simple_layer' =
         IF simple_layer.layer.wl_surface = surface
         THEN [simple_layer EXCEPT !.keyboard_focus = FALSE]
         ELSE simple_layer
    /\ ops' = <<>>
    /\ UNCHANGED <<program, pc, draws, current, bind, example, windows,
                   created, esc_handled, close_requested>>

(* Mutant of xor: Option::or, the first when it is Some *)
xor_as_or(a, b) == IF a # None THEN a ELSE b

(* Option::xor: Some when exactly one of the two is Some *)
xor(a, b) ==
    IF a # None /\ b = None THEN a
    ELSE IF a = None /\ b # None THEN b
    ELSE None

(* Mutant of Layer_pointer_event: every button but the left one asks for   *)
(* exclusive keyboard interactivity                                        *)
Layer_pointer_event_not_left(self, e, cur) ==
    IF e.kind = "Press"
    THEN LET s1 == [self EXCEPT !.layer.keyboard_interactivity =
                        IF e.button = BTN_LEFT THEN "None" ELSE "Exclusive"]
         IN Ret([s1 EXCEPT !.shift = xor(@, Some(0))],
                <<LayerOp("set_keyboard_interactivity", self, cur),
                  LayerOp("commit", self, cur)>>, FALSE)
    ELSE Ret(self, <<>>, FALSE)

(* The body of pointer_frame's loop for one event of the layer's surface *)
Layer_pointer_event(self, e, cur) ==
    IF e.kind = "Press"
    THEN LET s1 == IF e.button = BTN_LEFT
                   THEN [self EXCEPT !.layer.keyboard_interactivity = "None"]
                   ELSE self
             o1 == IF e.button = BTN_LEFT
                   THEN <<LayerOp("set_keyboard_interactivity", self, cur),
                          LayerOp("commit", self, cur)>>
                   ELSE <<>>
             s2 == IF e.button = BTN_RIGHT
                   THEN [s1 EXCEPT !.layer.keyboard_interactivity = "Exclusive"]
                   ELSE s1
             o2 == IF e.button = BTN_RIGHT
                   THEN <<LayerOp("set_keyboard_interactivity", self, cur),
                          LayerOp("commit", self, cur)>>
                   ELSE <<>>
         IN Ret([s2 EXCEPT !.shift = xor(@, Some(0))], o1 \o o2, FALSE)
    ELSE Ret(self, <<>>, FALSE)

(* Mutant of pointer_frame: an event for another surface ends the loop *)
RECURSIVE pointer_frame_break(_, _, _)
pointer_frame_break(self, events, cur) ==
    IF events = <<>> THEN Ret(self, <<>>, FALSE)
    ELSE IF Head(events).surface # self.layer.wl_surface
    THEN Ret(self, <<>>, FALSE)
    ELSE LET r == Layer_pointer_event(self, Head(events), cur)
             rest == pointer_frame_break(r.self, Tail(events), cur)
         IN Ret(rest.self, r.ops \o rest.ops, FALSE)

(* PointerHandler::pointer_frame: the events in order; one for another     *)
(* surface is skipped                                                      *)
RECURSIVE pointer_frame(_, _, _)
pointer_frame(self, events, cur) ==
    IF events = <<>> THEN Ret(self, <<>>, FALSE)
    ELSE IF Head(events).surface # self.layer.wl_surface
    THEN pointer_frame(self, Tail(events), cur)
    ELSE LET r == Layer_pointer_event(self, Head(events), cur)
             rest == pointer_frame(r.self, Tail(events), cur)
         IN Ret(rest.self, r.ops \o rest.ops, FALSE)

Layer_pointer_frame(events) ==
    /\ Dispatching("layer") /\ HasPointer
    /\ Handled([kind |-> "pointer_frame", events |-> events])
    /\ LET r == pointer_frame(simple_layer, events, current) IN
         /\ simple_layer' = r.self
         /\ ops' = r.ops
    /\ UNCHANGED <<program, pc, draws, current, bind, example, windows,
                   created, esc_handled, close_requested>>

(* The handlers with an empty body or a println only: scale_factor_changed,*)
(* OutputHandler, new_seat and remove_seat, update_modifiers.              *)
Layer_NoopKinds ==
    {"scale_factor_changed", "new_output", "update_output",
     "output_destroyed", "new_seat", "remove_seat", "update_modifiers"}

Layer_noop(kind) ==
    /\ Dispatching("layer")
    /\ kind = "update_modifiers" => HasKeyboard
    /\ Handled([kind |-> kind])
    /\ ops' = <<>>
    /\ UNCHANGED <<program, pc, draws, current, bind, example, simple_layer,
                   windows, created, esc_handled, close_requested>>

(* main's loop: blocking_dispatch has returned, then the exit flag is      *)
(* examined.                                                               *)
Layer_loop ==
    /\ program = "layer" /\ pc = "dispatch"
    /\ batch /\ pending = 0
    /\ pc' = IF simple_layer.exit THEN "exited" ELSE "dispatch"
    /\ batch' = FALSE
    /\ ops' = <<>>
    /\ event' = NoEvent
    /\ UNCHANGED <<program, pending, nevents, draws, current, bind, example,
                   simple_layer, windows, created, esc_handled, close_requested>>

---------------------------------------------------------------------------
(* src/crates/interphace and src/crates/phrame/src/main.rs: the            *)
(* multi-window program                                                    *)

(* initialize_gl_context: the calls it makes; the context is made current  *)
(* on the new window surface before it returns.                            *)
App_create_context(d) ==
    IF d.gl_ok
    THEN <<Try("create_context(OpenGl)", FALSE)>>
    ELSE <<Try("create_context(OpenGl)", TRUE),
           Step("create_context(Gles)", ~d.gles_ok)>>

(* Mutant of initialize_gl_context: the context is returned without being *)
(* made current                                                            *)
initialize_gl_context_not_current(d) ==
    <<Step("upgrade", ~d.conn_live),
      Step("display_handle", FALSE),
      Step("window_handle", FALSE),
      Step("Display::new", ~d.display_ok),
      Step("find_configs", ~d.has_config)>>
    \o App_create_context(d)
    \o <<Step("NonZeroU32::new", FALSE),
          Step("create_window_surface", ~d.surface_ok)>>

initialize_gl_context(d) ==
    <<Step("upgrade", ~d.conn_live),
      Step("display_handle", FALSE),
      Step("window_handle", FALSE),
      Step("Display::new", ~d.display_ok),
      Step("find_configs", ~d.has_config)>>
    \o App_create_context(d)
    \o <<Step("NonZeroU32::new", FALSE),
          Step("create_window_surface", ~d.surface_ok),
          Step("make_current", ~d.current_ok)>>

(* initialize_skia: the canvas takes the window surface's dimensions *)
initialize_skia_steps(d) ==
    <<Step("DirectContext::new_gl", ~d.gr_ok),
      Step("width", FALSE),
      Step("height", FALSE),
      Step("from_backend_render_target", ~d.skia_ok)>>

initialize_skia(window_surface, id) ==
    Canvas(window_surface.width, window_surface.height, id)

(* GraphicsContext::new *)
GraphicsContext_steps(d) == initialize_gl_context(d) \o initialize_skia_steps(d)

(* Mutant of GraphicsContext_new: one context shared by every window *)
GraphicsContext_new_shared(id) ==
    [possibly_current_context |-> 1,
     window_surface |-> Target(100, 100),
     skia_surface |-> Canvas(100, 100, id)]

GraphicsContext_new(id) ==
    [possibly_current_context |-> id,
     window_surface |-> Target(100, 100),
     skia_surface |-> initialize_skia(Target(100, 100), id)]

(* GraphicsContext::make_current: the contexts current afterwards *)
make_current(self, cur) == {self.possibly_current_context}

(* Window::new *)
Window_steps(d) ==
    <<Step("create_surface", FALSE),
      Step("create_xdg_window", FALSE),
      Step("set_title", FALSE),
      Step("commit", FALSE)>>
    \o GraphicsContext_steps(d)

Window_new(id) == [xdg_window |-> id, graphics_context |-> GraphicsContext_new(id)]

(* Mutant of Window_draw: no make_current before the canvas is used *)
Window_draw_stale(self, cur) ==
    LET gc == self.graphics_context
        w == self.xdg_window
    IN [self |-> [self EXCEPT !.graphics_context.skia_surface.frames = @ + 1],
        ops |-> <<Op("clear", w, cur, gc.skia_surface, gc.window_surface),
                  Op("draw_circle", w, cur, gc.skia_surface, gc.window_surface),
                  Op("flush_and_submit", w, cur, gc.skia_surface, gc.window_surface),
                  Op("swap_buffers", w, cur, gc.skia_surface, gc.window_surface)>>,
        cur |-> cur]

(* Window::draw: the window afterwards, the calls made, the contexts       *)
(* current afterwards.                                                     *)
Window_draw(self, cur) ==
    LET gc == self.graphics_context
        now == make_current(gc, cur)
        w == self.xdg_window
    IN [self |-> [self EXCEPT !.graphics_context.skia_surface.frames = @ + 1],
        ops |-> <<Op("make_current", w, cur, gc.skia_surface, gc.window_surface),
                  Op("clear", w, now, gc.skia_surface, gc.window_surface),
                  Op("draw_circle", w, now, gc.skia_surface, gc.window_surface),
                  Op("flush_and_submit", w, now, gc.skia_surface, gc.window_surface),
                  Op("swap_buffers", w, now, gc.skia_surface, gc.window_surface)>>,
        cur |-> now]

(* Mutant of Application_steps: the seat is expected like the shells *)
Application_steps_seat_expected(s) ==
    <<Step("connect_to_env", ~s.reachable),
      Step("registry_queue_init", ~s.registry_ok),
      Step("CompositorState::bind", ~s.compositor),
      Step("RegistryState::new", FALSE),
      Step("SeatState::new", ~s.seat),
      New("OutputState::new", ~s.output),
      Step("XdgShell::bind", ~s.xdg_shell),
      Step("LayerShell::bind", ~s.layer_shell)>>

(* Application::new with Backend::new: the calls they make *)
Application_steps(s) ==
    <<Step("connect_to_env", ~s.reachable),
      Step("registry_queue_init", ~s.registry_ok),
      Step("CompositorState::bind", ~s.compositor),
      Step("RegistryState::new", FALSE),
      New("SeatState::new", ~s.seat),
      New("OutputState::new", ~s.output),
      Step("XdgShell::bind", ~s.xdg_shell),
      Step("LayerShell::bind", ~s.layer_shell)>>

Application_new ==
    /\ program = "phrame" /\ pc = "start"
    /\ \E s \in Servers :
         LET log == UntilPanic(Application_steps(s)) IN
         /\ bind' = log
         /\ pc' = IF Panicked(log) THEN "aborted" ELSE "setup"
    /\ ops' = <<>>
    /\ event' = NoEvent
    /\ UNCHANGED <<program, batch, pending, nevents, draws, current, example,
                   simple_layer, windows, created, esc_handled, close_requested>>

(* The xdg windows created so far *)
NumWindows == Len(windows) + Cardinality(created)

(* main calls Window::new *)
App_Window_new ==
    /\ program = "phrame" /\ pc = "setup"
    /\ NumWindows < MaxWindows
    /\ \E d \in Drivers :
         LET log == UntilPanic(Window_steps(d))
             w == Window_new(NumWindows + 1)
         IN /\ bind' = log
            /\ IF Panicked(log)
               THEN /\ pc' = "aborted"
                    /\ UNCHANGED <<created, current>>
               ELSE /\ pc' = pc
                    /\ created' = created \cup {w}
                    /\ current' = {w.graphics_context.possibly_current_context}
    /\ ops' = <<>>
    /\ event' = NoEvent
    /\ UNCHANGED <<program, batch, pending, nevents, draws, example, simple_layer,
                   windows, esc_handled, close_requested>>

(* Mutant of add_window: the window is put at the front *)
add_window_front(ws, window) == <<window>> \o ws

(* Backend::add_window *)
add_window(ws, window) == Append(ws, window)

App_add_window(window) ==
    /\ program = "phrame" /\ pc = "setup"
    /\ window \in created
    /\ windows' = add_window(windows, window)
    /\ created' = created \ {window}
    /\ ops' = <<>>
    /\ event' = NoEvent
    /\ UNCHANGED <<program, pc, batch, pending, nevents, draws, current, bind, example,
                   simple_layer, esc_handled, close_requested>>

(* main calls Application::run *)
Application_run ==
    /\ program = "phrame" /\ pc = "setup"
    /\ pc' = "dispatch"
    /\ ops' = <<>>
    /\ event' = NoEvent
    /\ UNCHANGED <<program, batch, pending, nevents, draws, current, bind, example,
                   simple_layer, windows, created, esc_handled, close_requested>>

(* Mutant of find: the first window of the list when none matches *)
find_or_first(ws, xdg_window) ==
    LET I == {i \in 1..Len(ws) : ws[i].xdg_window = xdg_window} IN
    IF I = {} THEN (IF ws = <<>> THEN 0 ELSE 1)
    ELSE CHOOSE i \in I : \A j \in I : i <= j

(* iter_mut().find(|w| &w.xdg_window == window): the index of the first    *)
(* window of the list with that xdg window, 0 when there is none.          *)
find(ws, xdg_window) ==
    LET I == {i \in 1..Len(ws) : ws[i].xdg_window = xdg_window} IN
    IF I = {} THEN 0 ELSE CHOOSE i \in I : \A j \in I : i <= j

(* Mutant of Backend_configure_targets: draw is called on each window *)
Backend_configure_targets_each(ws, xdg_window) == 1..Len(ws)

(* The windows Backend's WindowHandler::configure draws, by index *)
Backend_configure_targets(ws, xdg_window) ==
    IF find(ws, xdg_window) = 0 THEN {} ELSE {find(ws, xdg_window)}

RECURSIVE DrawAll(_, _, _, _)
(* Window::draw on the windows of I in list order, from index i on: the    *)
(* list afterwards, the calls made, the contexts current afterwards.       *)
DrawAll(ws, I, i, cur) ==
    IF i > Len(ws) THEN [ws |-> ws, ops |-> <<>>, cur |-> cur, n |-> 0]
    ELSE IF i \notin I THEN DrawAll(ws, I, i + 1, cur)
    ELSE LET d == Window_draw(ws[i], cur)
             rest == DrawAll([ws EXCEPT ![i] = d.self], I, i + 1, d.cur)
         IN [ws |-> rest.ws, ops |-> d.ops \o rest.ops, cur |-> rest.cur,
             n |-> rest.n + 1]

(* WindowHandler::configure of Backend *)
Backend_configure(xdg_window, new_size) ==
    /\ Dispatching("phrame")
    /\ Handled([kind |-> "configure", window |-> xdg_window, new_size |-> new_size])
    /\ LET r == DrawAll(windows, Backend_configure_targets(windows, xdg_window),
                        1, current)
       IN /\ windows' = r.ws
          /\ ops' = r.ops
          /\ current' = r.cur
          /\ draws' = draws + r.n
    /\ UNCHANGED <<program, pc, bind, example, simple_layer, created,
                   esc_handled, close_requested>>

(* WindowHandler::request_close of Backend: it prints, and sets no flag *)
Backend_request_close ==
    /\ Dispatching("phrame")
    /\ Handled([kind |-> "request_close"])
    /\ close_requested' = TRUE
    /\ ops' = <<>>
    /\ UNCHANGED <<program, pc, draws, current, bind, example, simple_layer,
                   windows, created, esc_handled>>

(* The handlers of Backend with an empty body: CompositorHandler,          *)
(* OutputHandler, SeatHandler, LayerShellHandler.                          *)
Backend_NoopKinds ==
    {"frame", "scale_factor_changed", "new_output",
     "update_output", "output_destroyed", "new_seat", "new_capability",
     "remove_capability", "remove_seat", "layer_closed", "layer_configure"}

Backend_noop(kind) ==
    /\ Dispatching("phrame")
    /\ Handled([kind |-> kind])
    /\ ops' = <<>>
    /\ UNCHANGED <<program, pc, draws, current, bind, example, simple_layer,
                   windows, created, esc_handled, close_requested>>

(* Application::run: loop { blocking_dispatch }, with no exit test *)
Application_loop ==
    /\ program = "phrame" /\ pc = "dispatch"
    /\ batch /\ pending = 0
    /\ batch' = FALSE
    /\ ops' = <<>>
    /\ event' = NoEvent
    /\ UNCHANGED <<program, pc, pending, nevents, draws, current, bind, example,
                   simple_layer, windows, created, esc_handled, close_requested>>

---------------------------------------------------------------------------
(* The specification *)

NoStruct == [exit |-> FALSE]

Init ==
    /\ program \in Programs
    /\ pc = "start"
    /\ batch = FALSE
    /\ nevents = 0
    /\ event = NoEvent
    /\ ops = <<>>
    /\ draws = 0
    /\ current = {}
    /\ bind = <<>>
    /\ example = NoStruct
    /\ simple_layer = NoStruct
    /\ windows = <<>>
    /\ created = {}
    /\ esc_handled = FALSE
    /\ pending = 0
    /\ close_requested = FALSE

Next ==
    \/ \E n \in 1..MaxEvents : blocking_dispatch(n)
    \/ Egl_main
    \/ \E new_size \in WindowSizes : Egl_configure(new_size)
    \/ Egl_request_close
    \/ \E kind \in Egl_NoopKinds : Egl_noop(kind)
    \/ Egl_loop
    \/ Layer_main
    \/ \E new_size \in LayerSizes : Layer_configure(new_size)
    \/ Layer_closed
    \/ Layer_frame
    \/ \E keysym \in Keysyms : Layer_press_key(keysym)
    \/ \E keysym \in Keysyms : Layer_release_key(keysym)
    \/ \E capability \in Capabilities : Layer_new_capability(capability)
    \/ \E capability \in Capabilities : Layer_remove_capability(capability)
    \/ \E surface \in Surfaces : Layer_enter(surface)
    \/ \E surface \in Surfaces : Layer_leave(surface)
    \/ \E events \in PointerFrames : Layer_pointer_frame(events)
    \/ \E kind \in Layer_NoopKinds : Layer_noop(kind)
    \/ Layer_loop
    \/ Application_new
    \/ App_Window_new
    \/ \E window \in created : App_add_window(window)
    \/ Application_run
    \/ \E xdg_window \in 1..NumWindows, new_size \in BackendSizes :
          Backend_configure(xdg_window, new_size)
    \/ Backend_request_close
    \/ \E kind \in Backend_NoopKinds : Backend_noop(kind)
    \/ Application_loop

Spec == Init /\ [][Next]_vars

---------------------------------------------------------------------------
(* Properties *)

(* The calls that draw into a canvas or present it *)
CanvasOps ==
    {"clear", "render_frame", "draw_circle", "flush_and_submit", "swap_buffers"}

(* The step just taken handled an event of this kind in program p *)
JustHandled(p, kind) ==
    /\ program = p
    /\ nevents' = nevents + 1
    /\ event'.kind = kind

(* The struct of a single-surface program exists *)
EglLive == program = "egl" /\ pc \in {"dispatch", "exited"}
LayerLive == program = "layer" /\ pc \in {"dispatch", "exited"}

(* The context that belongs to the window a call is made for *)
ContextOf(win) ==
    IF program = "phrame"
    THEN windows[find(windows, win)].graphics_context.possibly_current_context
    ELSE IF program = "egl" THEN example.context
    ELSE simple_layer.context

(* C1: in the multi-window program a configure event addressed to a window *)
(* draws on that window and on no other: every call it makes is made for   *)
(* the addressed window, the addressed window of the list gets one more    *)
(* frame, and every other window, listed or not, is left as it was.        *)
C1_ConfigureRouting ==
    [][JustHandled("phrame", "configure") =>
         /\ Len(windows') = Len(windows)
         /\ created' = created
         /\ \A k \in 1..Len(ops') : ops'[k].win = event'.window
         /\ \A i \in 1..Len(windows) :
              IF windows[i].xdg_window = event'.window
              THEN /\ windows'[i].graphics_context.skia_surface.frames
                        = windows[i].graphics_context.skia_surface.frames + 1
                   /\ \E k \in 1..Len(ops') : ops'[k].op = "clear"
              ELSE windows'[i] = windows[i]]_vars

(* Scenario B: three windows listed, each has had its own configure, the   *)
(* last one window 2's; every window holds exactly one frame.              *)
C1_Witness ==
    /\ program = "phrame" /\ Len(windows) = 3
    /\ event.kind = "configure" /\ event.window = 2
    /\ ops # <<>>
    /\ draws = 3
    /\ \A i \in 1..3 : windows[i].graphics_context.skia_surface.frames = 1

(* C2: whenever a canvas is drawn into or presented, the context of the    *)
(* window it belongs to is the one current on the thread, and at no time   *)
(* is more than one context current.                                       *)
C2_CurrentOnDraw ==
    /\ Cardinality(current) <= 1
    /\ \A k \in 1..Len(ops) :
         /\ Cardinality(ops[k].cur) <= 1
         /\ ops[k].op \in CanvasOps => ops[k].cur = {ContextOf(ops[k].win)}

(* Window 1 is drawn while the context of window 3, the last one created,  *)
(* is current when Window::draw is entered.                                *)
C2_Witness ==
    /\ program = "phrame" /\ Len(windows) = 3
    /\ ops # <<>>
    /\ ops[1].op = "make_current" /\ ops[1].win = 1 /\ ops[1].cur = {3}
    /\ ops[Len(ops)].op = "swap_buffers"
    /\ current = {1}

(* C3: after a layer configure that reports (0,0) the working size is      *)
(* 256x256, and the working width and height are never 0.                  *)
C3_WorkingSize ==
    LayerLive =>
        /\ simple_layer.width # 0
        /\ simple_layer.height # 0
        /\ (event.kind = "configure" /\ event.new_size = <<0, 0>>)
               => (simple_layer.width = 256 /\ simple_layer.height = 256)

(* A (0,0) configure handled after one that had set another size *)
C3_Witness ==
    /\ LayerLive
    /\ event.kind = "configure" /\ event.new_size = <<0, 0>>
    /\ simple_layer.width = 256 /\ simple_layer.height = 256
    /\ ~simple_layer.first_configure
    /\ nevents >= 2 /\ draws = 1

(* C4: no configure event of the decorated window aborts the process or    *)
(* leaves the presentation target with a zero dimension.                   *)
C4_ConfigureNeverAborts ==
    (program = "egl" /\ event.kind = "configure") =>
        /\ pc # "aborted"
        /\ example.surface.width # 0
        /\ example.surface.height # 0

(* C5: scenario A, one decorated window and one configure (800,600): one   *)
(* draw sequence has happened, into a canvas of 800x600.                   *)
C5_ScenarioA ==
    (program = "egl" /\ nevents = 1 /\ event.kind = "configure"
        /\ event.new_size = <<800, 600>>) =>
        /\ draws = 1
        /\ [k \in 1..(Len(ops) - 1) |-> ops[k + 1].op]
             = <<"clear", "render_frame", "flush_and_submit", "swap_buffers">>
        /\ \A k \in 1..Len(ops) :
             ops[k].op \in CanvasOps =>
                 (ops[k].canvas.width = 800 /\ ops[k].canvas.height = 600)

(* C6: whenever a draw happens, the canvas has the dimensions the          *)
(* presentation target has at that time.                                   *)
C6_CanvasMatchesTarget ==
    \A k \in 1..Len(ops) :
        ops[k].op \in CanvasOps =>
            /\ ops[k].canvas.width = ops[k].target.width
            /\ ops[k].canvas.height = ops[k].target.height

(* The size a configure event of a single-surface program reports *)
Reported == event.new_size

(* C7: after a configure that reports (w,h) with w,h > 0 the presentation  *)
(* target has size (w,h), in the draw of that handler and afterwards, for  *)
(* the decorated window and for the layer surface.                         *)
C7_TargetResized ==
    /\ (EglLive /\ event.kind = "configure" /\ Reported # None
           /\ Reported[1] > 0 /\ Reported[2] > 0) =>
          /\ example.surface = Target(Reported[1], Reported[2])
          /\ \A k \in 1..Len(ops) :
               ops[k].op \in CanvasOps => ops[k].target = example.surface
    /\ (LayerLive /\ event.kind = "configure"
           /\ Reported[1] > 0 /\ Reported[2] > 0) =>
          /\ simple_layer.surface = Target(Reported[1], Reported[2])
          /\ \A k \in 1..Len(ops) :
               ops[k].op \in CanvasOps => ops[k].target = simple_layer.surface

(* C8: a configure of the decorated window that reports the size the       *)
(* presentation target already has leaves the canvas the same object, with *)
(* the same dimensions.                                                    *)
C8_ResizeIdempotent ==
    [][(JustHandled("egl", "configure")
          /\ event'.new_size = <<example.surface.width, example.surface.height>>) =>
         /\ pc' # "aborted"
         /\ example'.surface = example.surface
         /\ example'.skia_surface.id = example.skia_surface.id
         /\ example'.skia_surface.width = example.skia_surface.width
         /\ example'.skia_surface.height = example.skia_surface.height]_vars

(* The target was 800x600 when resize was called for a configure that      *)
(* reports (800,600), and the draw went on.                                *)
C8_Witness ==
    /\ EglLive
    /\ event.kind = "configure" /\ event.new_size = <<800, 600>>
    /\ ops # <<>>
    /\ ops[1].op = "resize" /\ ops[1].target = Target(800, 600)
    /\ ops[Len(ops)].op = "swap_buffers"
    /\ example.skia_surface.id = 1

(* The positions of the requests for one API in a bind *)
Requests(log, api) == {k \in 1..Len(log) : log[k].op = api}

(* C9: a bind asks for a desktop OpenGL context at most once; when that    *)
(* request is rejected it asks for an OpenGL ES context exactly once, next,*)
(* and aborts there when that is rejected too; when the OpenGL request     *)
(* succeeds it makes no ES request.                                        *)
C9_ContextFallback ==
    LET gl == Requests(bind, "create_context(OpenGl)")
        es == Requests(bind, "create_context(Gles)")
    IN /\ Cardinality(gl) <= 1
       /\ Cardinality(es) <= 1
       /\ es # {} => gl # {}
       /\ \A k \in gl :
            IF bind[k].failed
            THEN /\ es = {k + 1}
                 /\ bind[k + 1].failed => Len(bind) = k + 1 /\ pc = "aborted"
            ELSE es = {}

(* A bind in which OpenGL was rejected, ES accepted, and the bind ended    *)
(* well.                                                                   *)
C9_Witness ==
    /\ pc = "dispatch"
    /\ \E k \in 1..Len(bind) :
         /\ bind[k].op = "create_context(OpenGl)" /\ bind[k].failed
         /\ bind[k + 1].op = "create_context(Gles)" /\ ~bind[k + 1].failed

(* C10: once a press of Escape has been handled the exit flag is set, the  *)
(* loop ends when blocking_dispatch returns, and no draw is performed any  *)
(* more, by no later event of the same batch either.                       *)
C10_NoDrawAfterEscape ==
    [][/\ esc_handled' => simple_layer'.exit
       /\ (esc_handled /\ batch /\ ~batch') => pc' = "exited"
       /\ esc_handled => draws' = draws]_vars

(* C11: in each of the three programs a close request sets the exit flag,  *)
(* and the dispatch loop ends when the blocking_dispatch call that         *)
(* delivered the request returns.                                          *)
C11_CloseTerminates ==
    [][/\ (close_requested' /\ program = "egl") => example'.exit
       /\ (close_requested' /\ program = "layer") => simple_layer'.exit
       /\ (close_requested /\ batch /\ ~batch') => pc' = "exited"]_vars

(* The windows of the multi-window program, listed or not yet *)
AllWindows == {windows[i] : i \in 1..Len(windows)} \cup created

(* The number of steps of a bind log that made this call *)
Calls(log, name) == Cardinality({k \in 1..Len(log) : log[k].op = name})

(* The step just taken was a successful bind: main of a single-surface     *)
(* program, or Window::new                                                 *)
JustBound ==
    \/ pc = "start" /\ pc' = "dispatch"
    \/ Cardinality(AllWindows') > Cardinality(AllWindows)

(* C12: every window has one surface and one graphics context of its own,  *)
(* made by the one bind that created the window and the same ones as long  *)
(* as the window exists; and the context current on the thread changes     *)
(* only in a step that makes a make_current call, a successful bind or a   *)
(* Window::draw, and becomes the context of that call.                     *)
C12_OneContextPerWindow ==
    [][/\ \A w1, w2 \in AllWindows' :
            (w1.xdg_window = w2.xdg_window
               \/ w1.graphics_context.possibly_current_context
                    = w2.graphics_context.possibly_current_context) => w1 = w2
       /\ JustBound =>
            /\ Calls(bind', "create_surface") = 1
            /\ Calls(bind', "create_window_surface") = 1
            /\ Cardinality({k \in 1..Len(bind') :
                   /\ bind'[k].op \in {"create_context(OpenGl)", "create_context(Gles)"}
                   /\ ~bind'[k].failed}) = 1
       /\ \A w \in AllWindows : \E v \in AllWindows' :
            /\ v.xdg_window = w.xdg_window
            /\ v.graphics_context.possibly_current_context
                 = w.graphics_context.possibly_current_context
            /\ v.graphics_context.window_surface = w.graphics_context.window_surface
       /\ EglLive => example'.context = example.context
       /\ LayerLive => simple_layer'.context = simple_layer.context
       /\ current' # current =>
            \/ /\ JustBound
               /\ Calls(bind', "make_current") = 1
               /\ current' =
                    IF program = "egl" THEN {example'.context}
                    ELSE IF program = "layer" THEN {simple_layer'.context}
                    ELSE {w.graphics_context.possibly_current_context :
                            w \in AllWindows' \ AllWindows}
            \/ \E k \in 1..Len(ops') :
                 /\ ops'[k].op = "make_current"
                 /\ ops'[k].cur = current
                 /\ current' = {ContextOf(ops'[k].win)}]_vars

(* Three windows exist, the third not in the list; window 2 was drawn      *)
(* while the context of window 3 was current, and is current now.          *)
C12_Witness ==
    /\ program = "phrame" /\ Len(windows) = 2 /\ Cardinality(created) = 1
    /\ event.kind = "configure" /\ event.window = 2
    /\ ops # <<>>
    /\ ops[1].op = "make_current" /\ ops[1].cur = {3}
    /\ current = {2}

(* C13: scenario C. The layer surface is requested with anchor BOTTOM and  *)
(* exclusive zone 50, and keeps both whatever configure events arrive: a   *)
(* configure changes the working width and height and the first-configure  *)
(* flag (and, by its draw, the content of the canvas), nothing else of the *)
(* struct.                                                                 *)
C13_ScenarioC ==
    [][/\ LayerLive' =>
            /\ simple_layer'.layer.anchor = "BOTTOM"
            /\ simple_layer'.layer.exclusive_zone = 50
       /\ JustHandled("layer", "configure") =>
            [simple_layer' EXCEPT
                 !.width = simple_layer.width,
                 !.height = simple_layer.height,
                 !.first_configure = simple_layer.first_configure,
                 !.skia_surface.frames = simple_layer.skia_surface.frames]
              = simple_layer]_vars

(* Three configure events, the last two with different sizes *)
C13_Witness ==
    /\ LayerLive /\ nevents = 3
    /\ event.kind = "configure" /\ event.new_size = <<800, 600>>
    /\ simple_layer.width = 800 /\ simple_layer.height = 600
    /\ ~simple_layer.first_configure /\ draws = 1 /\ ops = <<>>
    /\ simple_layer.layer.anchor = "BOTTOM"
    /\ simple_layer.layer.exclusive_zone = 50

IsCanvasOp(o) == o.op \in CanvasOps

(* C14: the canvas and presentation calls of a step are the draws it       *)
(* performs, one after the other, and each draw is clear, one shape draw,  *)
(* flush_and_submit, swap_buffers, in this order, each once, on the canvas *)
(* of one window.                                                          *)
C14_DrawOrder ==
    [][LET c == SelectSeq(ops', IsCanvasOp)
           n == Len(c) \div 4
       IN /\ Len(c) = 4 * n
          /\ draws' = draws + n
          /\ \A j \in 0..(n - 1) :
               /\ c[4 * j + 1].op = "clear"
               /\ c[4 * j + 2].op \in {"render_frame", "draw_circle"}
               /\ c[4 * j + 3].op = "flush_and_submit"
               /\ c[4 * j + 4].op = "swap_buffers"
               /\ \A k \in 2..4 :
                    /\ c[4 * j + k].win = c[4 * j + 1].win
                    /\ c[4 * j + k].canvas = c[4 * j + 1].canvas]_vars

(* The second draw of the decorated window: it ended with flush_and_submit *)
(* and then swap_buffers.                                                  *)
C14_Witness ==
    /\ EglLive /\ draws = 2
    /\ example.skia_surface.frames = 2
    /\ Len(ops) = 5
    /\ ops[2].op = "clear"
    /\ ops[4].op = "flush_and_submit"
    /\ ops[5].op = "swap_buffers"

(* Some call of this name was made, and succeeded, before step k of a log  *)
DoneBefore(log, name, k) ==
    \E j \in 1..(k - 1) : log[j].op = name /\ ~log[j].failed

(* C15: in every bind the non-zero dimensions are checked before the       *)
(* presentation target is created, the target is created before the       *)
(* context is made current, the context is made current before the skia    *)
(* DirectContext is created, and the target's width and height are read    *)
(* after that and before the canvas is created on the render target; the   *)
(* canvas a bind returns has the dimensions of the presentation target.    *)
C15_BindOrder ==
    /\ \A k \in 1..Len(bind) :
         /\ bind[k].op = "create_window_surface"
              => DoneBefore(bind, "NonZeroU32::new", k)
         /\ bind[k].op = "make_current"
              => DoneBefore(bind, "create_window_surface", k)
         /\ bind[k].op = "DirectContext::new_gl"
              => DoneBefore(bind, "make_current", k)
         /\ bind[k].op \in {"width", "height"}
              => DoneBefore(bind, "DirectContext::new_gl", k)
         /\ bind[k].op = "from_backend_render_target"
              => /\ DoneBefore(bind, "width", k)
                 /\ DoneBefore(bind, "height", k)
    /\ (program = "egl" /\ pc = "dispatch" /\ nevents = 0) =>
          /\ example.skia_surface.width = example.surface.width
          /\ example.skia_surface.height = example.surface.height
          /\ example.surface.width # 0 /\ example.surface.height # 0
    /\ (program = "layer" /\ pc = "dispatch" /\ nevents = 0) =>
          /\ simple_layer.skia_surface.width = simple_layer.surface.width
          /\ simple_layer.skia_surface.height = simple_layer.surface.height
          /\ simple_layer.surface.width # 0 /\ simple_layer.surface.height # 0
    /\ \A w \in AllWindows :
          /\ w.graphics_context.skia_surface.width
               = w.graphics_context.window_surface.width
          /\ w.graphics_context.skia_surface.height
               = w.graphics_context.window_surface.height
          /\ w.graphics_context.window_surface.width # 0
          /\ w.graphics_context.window_surface.height # 0

(* The bind of a second window has just succeeded, with the OpenGL ES      *)
(* fallback.                                                               *)
C15_Witness ==
    /\ program = "phrame" /\ pc = "setup"
    /\ Cardinality(AllWindows) = 2
    /\ current = {2}
    /\ bind # <<>>
    /\ bind[Len(bind)].op = "from_backend_render_target"
    /\ ~bind[Len(bind)].failed
    /\ Requests(bind, "create_context(Gles)") # {}

(* C16: a decorated window's graphics context is bound right after the     *)
(* window is made, before any event is handled; a layer surface's context  *)
(* is bound only when the first configure event has been handled, and its  *)
(* presentation target has the size that configure stored.                 *)
C16_ContextTiming ==
    /\ \A k \in 1..(Len(bind) - 1) :
         ((program = "egl" /\ bind[k].op = "Window::builder")
            \/ (program = "phrame" /\ bind[k].op = "commit"))
           => bind[k + 1].op = "upgrade"
    /\ (program = "egl" /\ nevents > 0) => current = {example.context}
    /\ (program = "phrame" /\ nevents > 0 /\ windows # <<>>) => current # {}
    /\ (program = "layer" /\ current # {}) =>
          /\ ~simple_layer.first_configure
          /\ simple_layer.surface.width = simple_layer.width
          /\ simple_layer.surface.height = simple_layer.height

(* The binds of protocol extensions that are expected to succeed *)
ExpectedBinds ==
    {"CompositorState::bind", "XdgShell::bind", "XdgShellState::bind",
     "LayerShell::bind"}

(* The log of Application::new, as opposed to that of a Window::new *)
IsStartup(log) == log # <<>> /\ log[1].op = "connect_to_env"

(* C17: startup aborts at the bind of an extension the server does not     *)
(* advertise, for the compositor and for each shell the program binds      *)
(* (Backend::new binds the xdg shell and the layer shell); a missing seat  *)
(* or output global aborts nothing; and a program's startup is not         *)
(* affected by a shell it does not bind.                                   *)
C17_CapabilityBinding ==
    /\ \A k \in 1..Len(bind) :
         /\ (bind[k].op \in ExpectedBinds /\ bind[k].failed)
              => (k = Len(bind) /\ pc = "aborted")
         /\ bind[k].op \in {"RegistryState::new", "SeatState::new",
                             "OutputState::new"}
              => (~bind[k].failed /\ ~bind[k].panics)
    /\ (program = "phrame" /\ IsStartup(bind)) =>
          IF Panicked(bind)
          THEN /\ pc = "aborted"
               /\ bind[Len(bind)].op \in
                    {"connect_to_env", "registry_queue_init"} \cup ExpectedBinds
          ELSE /\ pc # "aborted"
               /\ Calls(bind, "CompositorState::bind") = 1
               /\ Calls(bind, "XdgShell::bind") = 1
               /\ Calls(bind, "LayerShell::bind") = 1
    /\ program = "egl" => Calls(bind, "LayerShell::bind") = 0
    /\ program = "layer" =>
          Calls(bind, "XdgShell::bind") + Calls(bind, "XdgShellState::bind") = 0

(* Backend::new has returned on a server that advertises neither a seat    *)
(* nor an output.                                                          *)
C17_Witness ==
    /\ program = "phrame" /\ pc = "setup"
    /\ IsStartup(bind) /\ ~Panicked(bind)
    /\ \E k \in 1..Len(bind) : bind[k].op = "SeatState::new" /\ bind[k].absent
    /\ \E k \in 1..Len(bind) : bind[k].op = "OutputState::new" /\ bind[k].absent
    /\ bind[Len(bind)].op = "LayerShell::bind"

(* The calls whose failure is a fatal setup error: the server cannot be    *)
(* reached, an expected extension is missing, no GPU configuration fits,   *)
(* the Gles request that follows a rejected OpenGL request is rejected     *)
FatalSteps ==
    {"connect_to_env", "find_configs", "create_context(Gles)"} \cup ExpectedBinds

(* C18: when one of these calls fails the process aborts there, during     *)
(* setup, and nothing happens afterwards: no draw has been or will be      *)
(* performed, the dispatch loop is never entered, and the window whose     *)
(* bind failed is never made nor added to the window list (the windows     *)
(* bound before it stay as they are).                                      *)
C18_FatalSetupErrors ==
    [][/\ pc # "aborted"
       /\ \A k \in 1..Len(bind') :
            (bind'[k].op \in FatalSteps /\ bind'[k].failed)
              => (k = Len(bind') /\ pc' = "aborted" /\ pc \in {"start", "setup"})
       /\ (pc \in {"start", "setup"} /\ pc' = "aborted") =>
            /\ Panicked(bind')
            /\ windows' = windows /\ created' = created
            /\ draws' = 0 /\ nevents' = 0 /\ pending' = 0 /\ ~batch'
            /\ example' = NoStruct /\ simple_layer' = NoStruct]_vars

(* Both profiles were rejected in the bind of the second window, after the *)
(* first window had been added to the list.                                *)
C18_Witness ==
    /\ program = "phrame" /\ pc = "aborted"
    /\ Len(windows) = 1 /\ created = {}
    /\ bind[Len(bind)].op = "create_context(Gles)" /\ bind[Len(bind)].failed
    /\ draws = 0 /\ nevents = 0

(* C18 as stated: in a run with a fatal setup error no window is ever in   *)
(* the window list, no draw is performed and no event is dispatched.       *)
C18_NoWindowAdded ==
    (Panicked(bind) /\ bind[Len(bind)].op \in FatalSteps) =>
        /\ pc = "aborted"
        /\ windows = <<>>
        /\ draws = 0 /\ nevents = 0 /\ pending = 0

(* The calls that derive the native handles and open the EGL display *)
HandleSteps == {"display_handle", "window_handle", "Display::new"}

(* C19: in every bind the native display and window handles are derived    *)
(* and the EGL display is opened only after the upgrade of the surface's   *)
(* backend has shown the connection to be live; when the connection is     *)
(* closed the bind aborts at the upgrade and makes none of these calls.    *)
C19_LivenessGuard ==
    \A k \in 1..Len(bind) :
        /\ bind[k].op \in HandleSteps => DoneBefore(bind, "upgrade", k)
        /\ (bind[k].op = "upgrade" /\ bind[k].failed) =>
             /\ k = Len(bind)
             /\ pc = "aborted"
             /\ \A j \in 1..Len(bind) : bind[j].op \notin HandleSteps

(* The layer example found the connection closed when it came to bind *)
C19_Witness ==
    /\ program = "layer" /\ pc = "aborted"
    /\ bind # <<>>
    /\ bind[Len(bind)].op = "upgrade" /\ bind[Len(bind)].failed
    /\ Calls(bind, "commit") = 1
    /\ current = {}

(* C20: while blocking_dispatch has events of its batch left, every step   *)
(* is one handler handling the next event, whether or not the exit flag is *)
(* set; the loop ends only in the step that examines the flag, and that    *)
(* step is taken only when the whole batch has been handled.               *)
C20_RunToCompletion ==
    [][/\ (pc = "dispatch" /\ pending > 0) =>
            /\ nevents' = nevents + 1
            /\ pending' = pending - 1
            /\ event' # NoEvent
            /\ pc' \in {"dispatch", "aborted"}
       /\ pc' = "exited" =>
            /\ pc = "dispatch"
            /\ batch /\ pending = 0
            /\ nevents' = nevents
            /\ IF program = "egl" THEN example.exit ELSE simple_layer.exit
       /\ (pc = "dispatch" /\ batch /\ ~batch') => pending = 0]_vars

(* The decorated window was asked to close, a configure event of the same  *)
(* batch was handled after that, with its draw, and one more event of the  *)
(* batch is to come.                                                       *)
C20_Witness ==
    /\ program = "egl" /\ pc = "dispatch"
    /\ example.exit
    /\ event.kind = "configure"
    /\ draws = 1 /\ ops # <<>>
    /\ nevents = 2 /\ pending = 1

OpNames(calls) == [k \in 1..Len(calls) |-> calls[k].op]

(* C22: every configure event of the decorated window makes one resize of  *)
(* the presentation target, to the event's size or to 1280x800 when it has *)
(* none, and then one draw; and the program draws in no other step.        *)
C22_ConfigureResizesAndDraws ==
    [][program = "egl" =>
         /\ JustHandled("egl", "configure") =>
              LET size == IF event'.new_size = None
                          THEN <<1280, 800>> ELSE event'.new_size
              IN /\ OpNames(ops') = <<"resize", "clear", "render_frame",
                                      "flush_and_submit", "swap_buffers">>
                 /\ example'.surface = Target(size[1], size[2])
                 /\ \A k \in 2..Len(ops') : ops'[k].target = example'.surface
                 /\ draws' = draws + 1
         /\ draws' # draws => JustHandled("egl", "configure")]_vars

(* The field of SimpleLayer that holds the object of a capability, and the *)
(* calls that acquire and release it                                       *)
Held(self, capability) ==
    IF capability = "Keyboard" THEN self.keyboard
    ELSE IF capability = "Pointer" THEN self.pointer
    ELSE None
Acquire(capability) ==
    IF capability = "Keyboard" THEN "get_keyboard"
    ELSE IF capability = "Pointer" THEN "get_pointer" ELSE "none"
Release(capability) ==
    IF capability = "Keyboard" THEN "keyboard.release"
    ELSE IF capability = "Pointer" THEN "pointer.release" ELSE "none"

(* C23: the keyboard and the pointer field hold nothing or one object. A   *)
(* capability-added event acquires the object when the field is empty and  *)
(* does nothing when it is held; a capability-removed event releases the   *)
(* held object and empties the field, and does nothing when the field is   *)
(* empty; each event touches the field of its own capability only, and no  *)
(* other event changes either field.                                       *)
C23_SeatCapabilities ==
    [][(LayerLive /\ LayerLive') =>
         /\ simple_layer'.keyboard \in {None, Some("wl_keyboard")}
         /\ simple_layer'.pointer \in {None, Some("wl_pointer")}
         /\ JustHandled("layer", "new_capability") =>
              LET c == event'.capability IN
              /\ [simple_layer' EXCEPT !.keyboard = simple_layer.keyboard,
                                       !.pointer = simple_layer.pointer]
                   = simple_layer
              /\ \A o \in Capabilities \ {c} :
                   Held(simple_layer', o) = Held(simple_layer, o)
              /\ IF c \in {"Keyboard", "Pointer"} /\ Held(simple_layer, c) = None
                 THEN /\ Held(simple_layer', c) # None
                      /\ OpNames(ops') = <<Acquire(c)>>
                 ELSE /\ Held(simple_layer', c) = Held(simple_layer, c)
                      /\ ops' = <<>>
         /\ JustHandled("layer", "remove_capability") =>
              LET c == event'.capability IN
              /\ [simple_layer' EXCEPT !.keyboard = simple_layer.keyboard,
                                       !.pointer = simple_layer.pointer]
                   = simple_layer
              /\ \A o \in Capabilities \ {c} :
                   Held(simple_layer', o) = Held(simple_layer, o)
              /\ Held(simple_layer', c) = None
              /\ IF Held(simple_layer, c) # None
                 THEN OpNames(ops') = <<Release(c)>>
                 ELSE ops' = <<>>
         /\ ~(JustHandled("layer", "new_capability")
                \/ JustHandled("layer", "remove_capability")) =>
              /\ simple_layer'.keyboard = simple_layer.keyboard
              /\ simple_layer'.pointer = simple_layer.pointer]_vars

(* The keyboard capability was announced while the keyboard was held: the  *)
(* third event of the run acquired nothing.                                *)
C23_Witness ==
    /\ LayerLive /\ nevents = 3
    /\ event.kind = "new_capability" /\ event.capability = "Keyboard"
    /\ simple_layer.keyboard # None /\ simple_layer.pointer = None
    /\ ops = <<>>

(* C24: in both example programs the exit flag is false when the loop is   *)
(* entered, no step sets it back to false, and the only steps that set it  *)
(* are the handling of a close request (request_close of the window,       *)
(* closed of the layer) and of a press of the Escape key.                  *)
C24_ExitMonotone ==
    [][/\ (program = "egl" /\ pc = "start" /\ pc' = "dispatch")
            => ~example'.exit
       /\ (program = "layer" /\ pc = "start" /\ pc' = "dispatch")
            => ~simple_layer'.exit
       /\ EglLive =>
            /\ example.exit => example'.exit
            /\ (example'.exit /\ ~example.exit)
                 => JustHandled("egl", "request_close")
       /\ LayerLive =>
            /\ simple_layer.exit => simple_layer'.exit
            /\ (simple_layer'.exit /\ ~simple_layer.exit) =>
                 \/ JustHandled("layer", "closed")
                 \/ /\ JustHandled("layer", "press_key")
                    /\ event'.keysym = KEY_Escape]_vars

(* Escape was pressed and then released: the flag set by the press is      *)
(* still set after the release.                                            *)
C24_Witness ==
    /\ LayerLive /\ pc = "dispatch"
    /\ simple_layer.exit /\ esc_handled /\ ~close_requested
    /\ event.kind = "release_key" /\ event.keysym = KEY_Escape

(* The xdg windows of the windows in Backend.windows *)
Listed == {windows[i].xdg_window : i \in 1..Len(windows)}

(* C25: in the multi-window program a configure event for a window that is *)
(* not in the list makes no call at all, draws nothing and leaves the      *)
(* list, the windows not yet added and the current context as they are; a  *)
(* configure event for a listed window adds one to the number of draws,    *)
(* and no other step changes that number, which therefore is the number of *)
(* configure events addressed to listed windows.                           *)
C25_UnlistedConfigure ==
    [][program = "phrame" =>
         /\ pc = "start" => draws' = 0
         /\ JustHandled("phrame", "configure") =>
              IF event'.window \in Listed
              THEN draws' = draws + 1
              ELSE /\ ops' = <<>>
                   /\ draws' = draws
                   /\ windows' = windows
                   /\ created' = created
                   /\ current' = current
         /\ ~JustHandled("phrame", "configure") => draws' = draws]_vars

(* Window 2 was created but never added; after a configure of window 1,    *)
(* which drew, a configure of window 2 has done nothing.                   *)
C25_Witness ==
    /\ program = "phrame" /\ pc = "dispatch"
    /\ Listed = {1} /\ Cardinality(created) = 1
    /\ event.kind = "configure" /\ event.window = 2
    /\ ops = <<>> /\ draws = 1 /\ nevents = 2
    /\ current = {1}

(* C26: Backend.windows only grows, and only at its end: a step that       *)
(* lengthens it is an add_window, which appends one window made by         *)
(* Window::new and leaves the entries before it as they are; no handler    *)
(* changes the length or the order of the list, and every entry keeps its  *)
(* xdg window, its context and its window surface, a close request         *)
(* changing nothing of the list at all.                                    *)
C26_WindowListAppendOnly ==
    [][program = "phrame" =>
         /\ Len(windows') >= Len(windows)
         /\ \A i \in 1..Len(windows) :
              /\ windows'[i].xdg_window = windows[i].xdg_window
              /\ windows'[i].graphics_context.possibly_current_context
                   = windows[i].graphics_context.possibly_current_context
              /\ windows'[i].graphics_context.window_surface
                   = windows[i].graphics_context.window_surface
         /\ Len(windows') > Len(windows) =>
              /\ pc = "setup" /\ nevents' = nevents
              /\ Len(windows') = Len(windows) + 1
              /\ windows'[Len(windows')] \in created
              /\ windows'[Len(windows')] \notin created'
              /\ SubSeq(windows', 1, Len(windows)) = windows
         /\ nevents' = nevents + 1 => Len(windows') = Len(windows)
         /\ JustHandled("phrame", "request_close") => windows' = windows]_vars

(* Three windows were added, window 2 first; a close request has been      *)
(* handled and the list is as it was.                                      *)
C26_Witness ==
    /\ program = "phrame" /\ pc = "dispatch"
    /\ Len(windows) = 3
    /\ windows[1].xdg_window = 2
    /\ event.kind = "request_close" /\ close_requested
    /\ Listed = {1, 2, 3}

(* The positions in a pointer frame of the presses on the layer's surface, *)
(* and of those with the left or the right button                          *)
OwnPresses(events) ==
    {k \in 1..Len(events) :
        events[k].surface = "layer" /\ events[k].kind = "Press"}
OwnLeftRight(events) ==
    {k \in OwnPresses(events) : events[k].button \in {BTN_LEFT, BTN_RIGHT}}

(* C27: the events of a pointer frame that are for another surface have no *)
(* effect: a frame with no press on the layer's surface changes nothing    *)
(* and makes no call, and a frame commits once for each left or right      *)
(* press on the layer's surface, wherever events for other surfaces stand  *)
(* in it. A keyboard enter or leave for another surface changes nothing;   *)
(* keyboard_focus is false at first, an enter for the layer's surface sets *)
(* it, a leave for it clears it, and no other step changes it.             *)
C27_OtherSurfaceIgnored ==
    [][program = "layer" =>
         /\ (pc = "start" /\ pc' = "dispatch") => ~simple_layer'.keyboard_focus
         /\ LayerLive =>
              /\ JustHandled("layer", "pointer_frame") =>
                   /\ OwnPresses(event'.events) = {} =>
                        (simple_layer' = simple_layer /\ ops' = <<>>)
                   /\ Cardinality({k \in 1..Len(ops') : ops'[k].op = "commit"})
                        = Cardinality(OwnLeftRight(event'.events))
                   /\ simple_layer'.keyboard_focus = simple_layer.keyboard_focus
              /\ JustHandled("layer", "enter") =>
                   /\ ops' = <<>>
                   /\ simple_layer' =
                        IF event'.surface = "layer"
                        THEN [simple_layer EXCEPT !.keyboard_focus = TRUE]
                        ELSE simple_layer
              /\ JustHandled("layer", "leave") =>
                   /\ ops' = <<>>
                   /\ simple_layer' =
                        IF event'.surface = "layer"
                        THEN [simple_layer EXCEPT !.keyboard_focus = FALSE]
                        ELSE simple_layer
              /\ ~(JustHandled("layer", "enter") \/ JustHandled("layer", "leave"))
                   => simple_layer'.keyboard_focus = simple_layer.keyboard_focus]_vars

(* A frame of a right press on another surface and then a left press on    *)
(* the layer's: the second was handled, the first was not.                 *)
C27_Witness ==
    /\ LayerLive
    /\ event.kind = "pointer_frame" /\ Len(event.events) = 2
    /\ event.events[1].surface = "other" /\ event.events[1].button = BTN_RIGHT
    /\ event.events[2].button = BTN_LEFT
    /\ OpNames(ops) = <<"set_keyboard_interactivity", "commit">>
    /\ simple_layer.layer.keyboard_interactivity = "None"
    /\ simple_layer.shift = Some(0)

(* The keyboard interactivity a button asks for *)
Asked(button) == IF button = BTN_LEFT THEN "None" ELSE "Exclusive"

(* C28: the layer's keyboard interactivity is None when the loop is        *)
(* entered; a pointer frame with presses of the left or right button on    *)
(* the layer's surface leaves it as the last of them asks, None for the    *)
(* left and Exclusive for the right button; a frame without such a press   *)
(* (other buttons, releases, motion, axis, other surfaces) and every other *)
(* step leave it unchanged. So it always is what the most recent left or   *)
(* right press asked for.                                                  *)
C28_KeyboardInteractivity ==
    [][program = "layer" =>
         /\ (pc = "start" /\ pc' = "dispatch") =>
              simple_layer'.layer.keyboard_interactivity = "None"
         /\ LayerLive =>
              simple_layer'.layer.keyboard_interactivity =
                 IF JustHandled("layer", "pointer_frame")
                      /\ OwnLeftRight(event'.events) # {}
                 THEN LET lr == OwnLeftRight(event'.events)
                          last == CHOOSE k \in lr : \A j \in lr : j <= k
                      IN Asked(event'.events[last].button)
                 ELSE simple_layer.layer.keyboard_interactivity]_vars

(* The right button was pressed on the layer's surface, and then the       *)
(* middle one, which changed nothing: the interactivity is Exclusive.      *)
C28_Witness ==
    /\ LayerLive /\ nevents = 3
    /\ event.kind = "pointer_frame"
    /\ event.events = <<[surface |-> "layer", kind |-> "Press",
                         button |-> BTN_MIDDLE]>>
    /\ ops = <<>>
    /\ simple_layer.layer.keyboard_interactivity = "Exclusive"
    /\ simple_layer.shift = None

(* None for Some(0) and Some(0) for None *)
Toggled(shift) == IF shift = None THEN Some(0) ELSE None

(* C29: shift is None when the loop is entered, and it is None or Some(0)  *)
(* ever after; a pointer frame toggles it once for each press, of any      *)
(* button, on the layer's surface, and no other step changes it. So after  *)
(* n such presses it is Some(0) exactly when n is odd.                     *)
C29_PressToggle ==
    [][program = "layer" =>
         /\ (pc = "start" /\ pc' = "dispatch") => simple_layer'.shift = None
         /\ LayerLive =>
              /\ simple_layer'.shift \in {None, Some(0)}
              /\ simple_layer'.shift =
                   IF JustHandled("layer", "pointer_frame")
                        /\ Cardinality(OwnPresses(event'.events)) % 2 = 1
                   THEN Toggled(simple_layer.shift)
                   ELSE simple_layer.shift]_vars

(* Three presses on the layer's surface: a frame of two presses that found *)
(* shift at Some(0), where the one press before had left it, and leaves it *)
(* so.                                                                     *)
C29_Witness ==
    /\ LayerLive /\ nevents = 3
    /\ event.kind = "pointer_frame"
    /\ Cardinality(OwnPresses(event.events)) = 2
    /\ simple_layer.shift = Some(0)

====
